---- MODULE Spec2Model ----
(***************************************************************************)
(* A model of bitmm/psp/client.py: PSPClient, the client of the Bitmymoney *)
(* PSP REST API.  One client object issues start, price_btc and            *)
(* transaction_status calls; each call builds a request (signed for        *)
(* start), blocks on one HTTP exchange and turns the response into a       *)
(* return value or an exception.                                           *)
(*                                                                         *)
(* Text is a sequence of one-character strings, so that concatenation,     *)
(* the regular expression and the decimal parser work on characters.       *)
(* A Python value is a tagged record: Str(s), Num(n) or None.              *)
(* HMAC-SHA256 is idealised as collision free: its digest is the term      *)
(* Hmac(key, msg), equal to another digest only for the same key and the   *)
(* same message.                                                           *)
(***************************************************************************)
EXTENDS Integers, Sequences, FiniteSets, TLC

VARIABLES
    apikey,     \* self.apikey
    base_url,   \* self.base_url
    pc,         \* where the running operation is: idle, sent, waiting, responded, done
    op,         \* the running operation: none, start, price_btc, transaction_status
    args,       \* the arguments of the running call that it may still read
    request,    \* the HTTP request in flight to the server, or None
    nrequests,  \* how many times the running operation has called reqfunc
    served,     \* the HTTP response as the server wrote it, or None
    wire,       \* the HTTP response as it reaches the client, or None
    outcome     \* how the operation ended: a return value or an exception

vars == <<apikey, base_url, pc, op, args, request, nrequests, served, wire, outcome>>

----------------------------------------------------------------------------
(* Python values *)

None == [none |-> TRUE]
Str(s) == [str |-> s]
Num(n) == [int |-> n]

IsStr(v) == DOMAIN v = {"str"}
IsInt(v) == DOMAIN v = {"int"}

DigitChars == <<"0", "1", "2", "3", "4", "5", "6", "7", "8", "9">>
Digits == {DigitChars[i] : i \in 1..10}
DigitValue(c) == CHOOSE d \in 0..9 : DigitChars[d + 1] = c

RECURSIVE NatToStr(_)
NatToStr(n) ==
    IF n < 10 THEN <<DigitChars[n + 1]>>
    ELSE NatToStr(n \div 10) \o <<DigitChars[(n % 10) + 1]>>

\* str(v) of Python 2: a string is itself, an integer its decimal digits.
PyStr(v) ==
    IF IsStr(v) THEN v.str
    ELSE IF IsInt(v) THEN (IF v.int < 0 THEN <<"-">> \o NatToStr(-v.int) ELSE NatToStr(v.int))
    ELSE <<"N", "o", "n", "e">>

\* Python truth of a value, as `x or ''` reads it.
Truthy(v) ==
    IF IsStr(v) THEN v.str # <<>>
    ELSE IF IsInt(v) THEN v.int # 0
    ELSE FALSE

\* ''.join(values)
RECURSIVE Join(_)
Join(values) ==
    IF values = <<>> THEN <<>> ELSE Head(values) \o Join(Tail(values))

\* hmac.new(key, msg, hashlib.sha256).hexdigest()
Hmac(key, msg) == [alg |-> "hmac-sha256", key |-> key, msg |-> msg]

----------------------------------------------------------------------------
(* _normalize_amount and its regular expression *)

\* The index after the longest run of \d starting at index i of s.
RECURSIVE DigitRun(_, _)
DigitRun(s, i) ==
    IF i <= Len(s) /\ s[i] \in Digits THEN DigitRun(s, i + 1) ELSE i

\* `$` of Python's re without MULTILINE: the end of the string, or just
\* before a newline that is the string's last character.
Dollar(s, i) == i = Len(s) + 1 \/ (i = Len(s) /\ s[i] = "\n")

\* _reg_decimal.match(s), for _reg_decimal = re.compile('^\d+([.]\d+)?$')
_reg_decimal_match(s) ==
    LET j == DigitRun(s, 1) IN
    /\ j > 1
    /\ \/ Dollar(s, j)
       \/ /\ j <= Len(s)
          /\ s[j] = "."
          /\ LET k == DigitRun(s, j + 1) IN k > j + 1 /\ Dollar(s, k)

ValueErrorAmount(s) == [kind |-> "ValueError", why |-> "amount", amount |-> s]

\* _normalize_amount(amount): the string returned, or the ValueError raised.
_normalize_amount(amount) ==
    LET s == PyStr(amount) IN
    IF ~ _reg_decimal_match(s)
    THEN [ok |-> FALSE, raised |-> ValueErrorAmount(s)]
    ELSE [ok |-> TRUE, value |-> s]

----------------------------------------------------------------------------
(* decimal.Decimal(v) *)

InvalidOperation == [kind |-> "InvalidOperation"]

RECURSIVE DigitsToNat(_)
DigitsToNat(s) ==
    IF s = <<>> THEN 0
    ELSE 10 * DigitsToNat(SubSeq(s, 1, Len(s) - 1)) + DigitValue(s[Len(s)])

\* Decimal of an integer, or of a numeric string digits[.digits] (either
\* side of the point may be empty, not both), as coefficient and exponent;
\* any other text raises InvalidOperation.  Signs, exponents, padding
\* white space and the special values are not among the inputs drawn here.
Decimal(v) ==
    IF IsInt(v) THEN [ok |-> TRUE, value |-> [coef |-> v.int, exp |-> 0]]
    ELSE IF ~ IsStr(v) THEN [ok |-> FALSE, raised |-> InvalidOperation]
    ELSE
      LET s == v.str
          j == DigitRun(s, 1)
          hasPoint == j <= Len(s) /\ s[j] = "."
          k == IF hasPoint THEN DigitRun(s, j + 1) ELSE j
          intPart == SubSeq(s, 1, j - 1)
          fracPart == IF hasPoint THEN SubSeq(s, j + 1, k - 1) ELSE <<>>
      IN IF k = Len(s) + 1 /\ Len(intPart) + Len(fracPart) > 0
         THEN [ok |-> TRUE,
               value |-> [coef |-> DigitsToNat(intPart \o fracPart),
                          exp |-> 0 - Len(fracPart)]]
         ELSE [ok |-> FALSE, raised |-> InvalidOperation]

----------------------------------------------------------------------------
(* Signing and verification *)

\* [str(data[field]) for field in fields]
SignValues(data, fields) == [i \in 1..Len(fields) |-> PyStr(data[fields[i]])]

start_sign_fields == <<"amount_eur", "description", "url_success", "merchant_id">>
start_verify_fields == <<"url_pay", "btc_address", "url_qrcode", "url_status">>
status_verify_fields == <<"status", "amount_btc", "amount_received", "txid">>

\* The params _call hands to reqfunc: kwargs, and for a signed call kwargs
\* without nonce and with sign.
CallParamsKeepNonce(key, sign_fields, kw) ==
    IF sign_fields # <<>>
    THEN LET popped == IF "nonce" \in DOMAIN kw THEN kw.nonce ELSE Str(<<>>)
             nonce == IF Truthy(popped) THEN popped.str ELSE <<>>
             sign == Hmac(key, Join(SignValues(kw, sign_fields)) \o nonce)
         IN [k \in DOMAIN kw \cup {"sign"} |-> IF k = "sign" THEN sign ELSE kw[k]]
    ELSE kw
CallParamsSignAll(key, sign_fields, kw) ==
    IF sign_fields # <<>>
    THEN LET popped == IF "nonce" \in DOMAIN kw THEN kw.nonce ELSE Str(<<>>)
             nonce == IF Truthy(popped) THEN popped.str ELSE <<>>
             all == <<"amount_eur", "description", "url_success", "callback_success",
                      "merchant_id">>
             sign == Hmac(key, Join(SignValues(kw, all)) \o nonce)
         IN [k \in (DOMAIN kw \ {"nonce"}) \cup {"sign"} |->
                IF k = "sign" THEN sign ELSE kw[k]]
    ELSE kw
CallParams(key, sign_fields, kw) ==
    IF sign_fields # <<>>
    THEN LET popped == IF "nonce" \in DOMAIN kw THEN kw.nonce ELSE Str(<<>>)
             nonce == IF Truthy(popped) THEN popped.str ELSE <<>>
             sign == Hmac(key, Join(SignValues(kw, sign_fields)) \o nonce)
         IN [k \in (DOMAIN kw \ {"nonce"}) \cup {"sign"} |->
                IF k = "sign" THEN sign ELSE kw[k]]
    ELSE kw

\* data.get('nonce', '')
GetNonce(data) == IF "nonce" \in DOMAIN data THEN data.nonce.str ELSE <<>>

\* The text _verify_signature signs: the fields' strings, then the nonce.
VerifyString(data, fields) == Join(SignValues(data, fields)) \o GetNonce(data)

\* _verify_signature(data, fields): TRUE when it returns, FALSE when it
\* raises InvalidSignature(data['sign']).
VerifyAcceptAll(key, data, fields) == TRUE
VerifyNoNonce(key, data, fields) ==
    Hmac(key, Join(SignValues(data, fields))) = data.sign
_verify_signature(key, data, fields) ==
    Hmac(key, VerifyString(data, fields)) = data.sign

InvalidSignature(data) == [kind |-> "InvalidSignature", sign |-> data.sign]

----------------------------------------------------------------------------
(* The reply half of _call *)

ServerError(response) ==
    [kind |-> "ServerError", code |-> response.status_code,
     message |-> response.reason, body |-> response.text]

JSONDecodeError == [kind |-> "ValueError", why |-> "json"]

\* response.json(): the text is the encoding of a JSON value, or it is not.
ResponseJson(response) ==
    IF "json" \in DOMAIN response.text
    THEN [ok |-> TRUE, value |-> response.text.json]
    ELSE [ok |-> FALSE, raised |-> JSONDecodeError]

\* What _call does with the response reqfunc returned.
CallReplyNo4xx(response) ==
    IF response.status_code < 200 \/ response.status_code >= 500
    THEN [ok |-> FALSE, raised |-> ServerError(response)]
    ELSE ResponseJson(response)
CallReply(response) ==
    IF response.status_code < 200 \/ response.status_code >= 400
    THEN [ok |-> FALSE, raised |-> ServerError(response)]
    ELSE ResponseJson(response)

----------------------------------------------------------------------------
(* The inputs drawn: callers' arguments, and what the server and the       *)
(* network may answer                                                      *)

MaxAmountLen == 3

SeqsUpTo(A, n) == UNION {[1..k -> A] : k \in 0..n}

\* The key the client is built with (the one of tests.py) and the keys a
\* server may sign with: that one, and one the client does not hold.
ApiKeys == {<<"1", "2", "3", "4", "5", "6", "7", "8", "9", "0">>}
ServerKeys == ApiKeys \cup {<<"0", "0", "0">>}

BASE_URL == <<"h", "t", "t", "p", ":", "/", "/", "l", "o", "c", "a", "l", "h", "o", "s", "t",
              ":", "8", "0", "0", "0", "/", "s", "e", "c", "u", "r", "e", "/", "p", "a", "y">>
BaseUrls == {BASE_URL, BASE_URL \o <<"/">>}

\* Amounts as callers may pass them: every text of up to MaxAmountLen
\* characters over a digit, the point, a sign and a newline, and an integer.
AmountAlphabet == {"1", ".", "-", "\n"}
AmountInputs == {Str(s) : s \in SeqsUpTo(AmountAlphabet, MaxAmountLen)} \cup {Num(10)}
DecimalsInputs == {-1, 0, 5}

DescriptionInputs == {Str(<<"T">>), Str(<<"T", "h">>)}
UrlSuccessInputs == {Str(<<"h">>), Str(<<"o", "k">>)}
CallbackInputs == {Str(<<"c">>), Str(<<"b">>)}
MerchantIdInputs == {Num(1), Str(<<"m">>)}
OptionalInputs == {None, Str(<<"x">>)}
NonceInputs == {None, Str(<<>>), Str(<<"n">>)}
TxidInputs == {Str(<<"7">>), Num(7)}

Reason(code) ==
    CASE code = 200 -> "OK"
      [] code = 400 -> "Bad Request"
      [] OTHER -> ""

\* The values a field of a JSON response may hold, as the server writes it
\* (Served) and as a party on the network may rewrite it (Wire).
WireValues(field) ==
    CASE field = "url_pay" -> {Str(<<"u">>), Str(<<"u", "1">>)}
      [] field = "btc_address" -> {Str(<<"1">>), Str(<<"1", "1">>), Num(1)}
      [] field = "url_qrcode" -> {Str(<<"q">>), Str(<<>>)}
      [] field = "url_status" -> {Str(<<"s">>), Str(<<"q">>)}
      [] field = "status" -> {Str(<<"S">>), Str(<<"P">>)}
      [] field = "amount_btc" -> {Str(<<"0", ".", "1">>), Str(<<"0", ".", "1", "1">>)}
      [] field = "amount_received" -> {Str(<<"0", ".", "1">>), Str(<<"1", "0", ".", "1">>),
                                       Str(<<>>)}
      [] field = "txid" -> {Str(<<"7">>), Num(7)}
      [] field = "nonce" -> {None, Str(<<>>), Str(<<"n">>)}
      [] OTHER -> {}
ServedValues(field) ==
    CASE field = "btc_address" -> {Str(<<"1">>), Str(<<"1", "1">>)}
      [] field = "url_qrcode" -> {Str(<<"q">>)}
      [] field = "url_status" -> {Str(<<"s">>)}
      [] field = "status" -> {Str(<<"S">>)}
      [] field = "amount_received" -> {Str(<<"0", ".", "1">>), Str(<<"1", "0", ".", "1">>)}
      [] field = "txid" -> {Str(<<"7">>)}
      [] OTHER -> WireValues(field)

Range(f) == {f[i] : i \in DOMAIN f}

\* The JSON objects a server may write for the given signed fields: the
\* fields, its signature over them and over a nonce of its choice, and that
\* nonce too when it echoes it.
ServedObjects(fields, keys, nonces, echoes) ==
    LET names == Range(fields)
        contents == {c \in [names -> UNION {ServedValues(f) : f \in names}] :
                        \A f \in names : c[f] \in ServedValues(f)}
    IN UNION {
         { [k \in names \cup {"sign"} \cup (IF echo THEN {"nonce"} ELSE {}) |->
              IF k = "sign" THEN Hmac(key, Join(SignValues(c, fields)) \o sn)
              ELSE IF k = "nonce" THEN Str(sn)
              ELSE c[k]] :
           key \in keys, sn \in nonces, echo \in echoes }
         : c \in contents }

\* sign(data, fields, apikey) of tests.py: hmac.new(''.join(values), apikey,
\* hashlib.sha256), the joined values as the key and the API key as the
\* message, and no nonce.
tests_sign(data, fields, key) == Hmac(Join(SignValues(data, fields)), key)

\* The JSON objects the tests serve: the fields and sign(data, fields, apikey).
TestObjects(fields) ==
    LET names == Range(fields)
        contents == {c \in [names -> UNION {ServedValues(f) : f \in names}] :
                        \A f \in names : c[f] \in ServedValues(f)}
    IN { [k \in names \cup {"sign"} |->
            IF k = "sign" THEN tests_sign(c, fields, key) ELSE c[k]] :
         c \in contents, key \in ApiKeys }

JsonText(value) == [json |-> value]
Garbage == [raw |-> "<html>"]

\* The response bodies a server may write to each operation: with a status
\* in [200, 400) any of its objects under any key and nonce, or signed as
\* the tests sign; with another status an error page or an object.
VerifyFields(o) ==
    IF o = "start" THEN start_verify_fields ELSE status_verify_fields
OkBodies(o) ==
    IF o = "price_btc"
    THEN {JsonText(v) : v \in {Str(<<"1", ".", "1", "0">>), Str(<<>>), Num(2)}}
    ELSE {JsonText(v) : v \in ServedObjects(VerifyFields(o), ServerKeys,
                                            {<<>>, <<"n">>}, BOOLEAN)
                             \cup TestObjects(VerifyFields(o))}
ErrorBodies(o) ==
    IF o = "price_btc"
    THEN {JsonText(Str(<<"1", ".", "1", "0">>))}
    ELSE {JsonText(v) : v \in ServedObjects(VerifyFields(o), ApiKeys, {<<>>}, {FALSE})}
StatusCodes == {199, 200, 399, 400}
ResponsesTo(o) ==
    {<<code, text>> : code \in StatusCodes, text \in {Garbage} \cup OkBodies(o) \cup ErrorBodies(o)}
StartResponses ==
    {r \in ResponsesTo("start") :
        r[1] \in 200..399 \/ r[2] \in {Garbage} \cup ErrorBodies("start")}
PriceResponses == ResponsesTo("price_btc")
StatusResponses ==
    {r \in ResponsesTo("transaction_status") :
        r[1] \in 200..399 \/ r[2] \in {Garbage} \cup ErrorBodies("transaction_status")}
Responses(o) ==
    CASE o = "start" -> StartResponses
      [] o = "price_btc" -> PriceResponses
      [] o = "transaction_status" -> StatusResponses
      [] OTHER -> {}

WireFields == Range(start_verify_fields) \cup Range(status_verify_fields) \cup {"nonce"}
AllWireValues == UNION {WireValues(f) : f \in WireFields}

EmptyDict == [k \in {} |-> None]

----------------------------------------------------------------------------
(* The state machine *)

NoOutcome == [kind |-> "none"]

Init ==
    /\ apikey \in ApiKeys
    /\ \E b \in BaseUrls :
          base_url = IF b # <<>> /\ b[Len(b)] = "/" THEN SubSeq(b, 1, Len(b) - 1) ELSE b
    /\ pc = "idle"
    /\ op = "none"
    /\ args = None
    /\ request = None
    /\ nrequests = 0
    /\ served = None
    /\ wire = None
    /\ outcome = NoOutcome

\* An operation raises before any request.
Raise(o, exc) ==
    /\ pc' = "done"
    /\ op' = o
    /\ outcome' = exc
    /\ args' = None
    /\ UNCHANGED <<apikey, base_url, request, nrequests, served, wire>>

\* _call up to reqfunc(url, params=data): the request leaves, and the
\* operation blocks until the response is there.
Send(o, given, path, sign_fields, kw) ==
    /\ pc' = "sent"
    /\ op' = o
    /\ args' = given
    /\ request' = [method |-> "GET", url |-> base_url \o path,
                   params |-> CallParams(apikey, sign_fields, kw)]
    /\ nrequests' = nrequests + 1
    /\ UNCHANGED <<apikey, base_url, served, wire, outcome>>

\* start(...), lines 62-70
Start(amount_eur, description, url_success, callback_success, merchant_id, order_id, url_failure, callback_failure, nonce) ==
    /\ pc = "idle"
    /\ LET amount == _normalize_amount(amount_eur)
           given == [amount_eur |-> amount_eur, description |-> description,
                     url_success |-> url_success, callback_success |-> callback_success,
                     merchant_id |-> merchant_id, order_id |-> order_id,
                     url_failure |-> url_failure, callback_failure |-> callback_failure,
                     nonce |-> nonce]
       IN IF ~ amount.ok
          THEN Raise("start", amount.raised)
          ELSE Send("start", given, <<"/", "s", "t", "a", "r", "t", "/">>, start_sign_fields,
                    [given EXCEPT !.amount_eur = Str(amount.value)])

ValueErrorDecimals == [kind |-> "ValueError", why |-> "decimals"]

\* price_btc(amount_eur, decimals), lines 78-82
PriceBtc(amount_eur, decimals) ==
    /\ pc = "idle"
    /\ LET amount == _normalize_amount(amount_eur)
           given == [amount_eur |-> amount_eur, decimals |-> Num(decimals)]
       IN IF ~ amount.ok
          THEN Raise("price_btc", amount.raised)
          ELSE IF decimals < 0
          THEN Raise("price_btc", ValueErrorDecimals)
          ELSE Send("price_btc", given,
                    <<"/", "p", "r", "i", "c", "e", "_", "b", "t", "c", "/">>, <<>>,
                    [given EXCEPT !.amount_eur = Str(amount.value)])

\* transaction_status(txid, nonce), line 87
TransactionStatus(txid, nonce) ==
    /\ pc = "idle"
    /\ Send("transaction_status", [txid |-> txid, nonce |-> nonce],
            <<"/", "t", "x", "/">> \o PyStr(txid) \o <<"/", "s", "t", "a", "t", "u", "s", "/">>,
            <<>>, EmptyDict)

\* The server reads the request.  From here on the operation reads none of
\* its arguments again, but for transaction_status its nonce (line 89).
ServerReceive ==
    /\ pc = "sent"
    /\ pc' = "waiting"
    /\ request' = None
    /\ args' = IF op = "transaction_status" THEN [nonce |-> args.nonce] ELSE None
    /\ UNCHANGED <<apikey, base_url, op, nrequests, served, wire, outcome>>

\* The server answers.
ServerRespond(code, text) ==
    /\ pc = "waiting"
    /\ pc' = "responded"
    /\ served' = [status_code |-> code, reason |-> Reason(code), text |-> text]
    /\ wire' = served'
    /\ UNCHANGED <<apikey, base_url, op, args, request, nrequests, outcome>>

\* A party on the network rewrites one field of the JSON object on its way
\* to the client (None: removes it), and leaves sign as it is.
Tamper(field, value) ==
    /\ pc = "responded"
    /\ op # "price_btc"
    /\ "json" \in DOMAIN wire.text
    /\ field \in (DOMAIN wire.text.json \ {"sign"}) \cup {"nonce"}
    /\ LET data == wire.text.json
           changed == IF value = None
                      THEN [k \in DOMAIN data \ {field} |-> data[k]]
                      ELSE [k \in DOMAIN data \cup {field} |->
                              IF k = field THEN value ELSE data[k]]
       IN /\ changed # data
          /\ wire' = [wire EXCEPT !.text = JsonText(changed)]
    /\ UNCHANGED <<apikey, base_url, pc, op, args, request, nrequests, served, outcome>>

\* The exchange fails below HTTP: reqfunc raises, and _call lets it pass.
TransportError ==
    /\ pc = "waiting"
    /\ pc' = "done"
    /\ outcome' = [kind |-> "ConnectionError"]
    /\ UNCHANGED <<apikey, base_url, op, args, request, nrequests, served, wire>>

Finish(result) ==
    /\ pc' = "done"
    /\ outcome' = result
    /\ UNCHANGED <<apikey, base_url, op, args, request, nrequests, served, wire>>

Return(value) == [kind |-> "return", value |-> value]

\* start, lines 71-73, after _call, lines 112-115
StartResultUnverified(key, response) ==
    LET reply == CallReply(response) IN
    IF ~ reply.ok THEN reply.raised ELSE Return(reply.value)
StartResult(key, response) ==
    LET reply == CallReply(response) IN
    IF ~ reply.ok THEN reply.raised
    ELSE IF ~ _verify_signature(key, reply.value, start_verify_fields)
    THEN InvalidSignature(reply.value)
    ELSE Return(reply.value)

StartReturn ==
    /\ pc = "responded"
    /\ op = "start"
    /\ Finish(StartResult(apikey, wire))

\* price_btc, line 81, after _call
PriceBtcResult(response) ==
    LET reply == CallReply(response) IN
    IF ~ reply.ok THEN reply.raised
    ELSE LET d == Decimal(reply.value) IN
         IF d.ok THEN Return(d.value) ELSE d.raised

PriceBtcReturn ==
    /\ pc = "responded"
    /\ op = "price_btc"
    /\ Finish(PriceBtcResult(wire))

\* transaction_status, lines 88-98, after _call.  sigdata, the copy of data
\* that is given the caller's nonce, is built and never read:
\* _verify_signature is handed data.
StatusResultWhole(key, response, nonce) ==
    LET reply == CallReply(response) IN
    IF ~ reply.ok THEN reply.raised
    ELSE IF ~ _verify_signature(key, reply.value, status_verify_fields)
    THEN InvalidSignature(reply.value)
    ELSE Return(reply.value)
StatusResult(key, response, nonce) ==
    LET reply == CallReply(response) IN
    IF ~ reply.ok THEN reply.raised
    ELSE LET data == reply.value
             sigdata == [k \in DOMAIN data \cup {"nonce"} |->
                           IF k = "nonce" THEN nonce ELSE data[k]]
             amount_btc == Decimal(data.amount_btc)
             amount_received == Decimal(data.amount_received)
         IN IF ~ _verify_signature(key, data, status_verify_fields)
            THEN InvalidSignature(data)
            ELSE IF ~ amount_btc.ok THEN amount_btc.raised
            ELSE IF ~ amount_received.ok THEN amount_received.raised
            ELSE Return([status |-> data.status,
                         amount_btc |-> amount_btc.value,
                         amount_received |-> amount_received.value,
                         txid |-> data.txid,
                         sign |-> data.sign])

TransactionStatusReturn ==
    /\ pc = "responded"
    /\ op = "transaction_status"
    /\ Finish(StatusResult(apikey, wire, args.nonce))

\* The caller has the result; the client is ready for the next call.
Idle ==
    /\ pc = "done"
    /\ pc' = "idle"
    /\ op' = "none"
    /\ args' = None
    /\ request' = None
    /\ nrequests' = 0
    /\ served' = None
    /\ wire' = None
    /\ outcome' = NoOutcome
    /\ UNCHANGED <<apikey, base_url>>

Next ==
    \/ /\ pc = "idle"
       /\ \E amount_eur \in AmountInputs, description \in DescriptionInputs,
             url_success \in UrlSuccessInputs, callback_success \in CallbackInputs,
             merchant_id \in MerchantIdInputs, order_id \in OptionalInputs,
             url_failure \in OptionalInputs, callback_failure \in OptionalInputs,
             nonce \in NonceInputs :
               Start(amount_eur, description, url_success, callback_success, merchant_id,
                     order_id, url_failure, callback_failure, nonce)
    \/ /\ pc = "idle"
       /\ \E amount_eur \in AmountInputs, decimals \in DecimalsInputs :
               PriceBtc(amount_eur, decimals)
    \/ /\ pc = "idle"
       /\ \E txid \in TxidInputs, nonce \in NonceInputs : TransactionStatus(txid, nonce)
    \/ ServerReceive
    \/ /\ pc = "waiting"
       /\ \E r \in Responses(op) : ServerRespond(r[1], r[2])
    \/ /\ pc = "responded"
       /\ \E field \in WireFields, value \in AllWireValues :
               /\ value \in WireValues(field)
               /\ Tamper(field, value)
    \/ TransportError
    \/ StartReturn
    \/ PriceBtcReturn
    \/ TransactionStatusReturn
    \/ Idle

Spec == Init /\ [][Next]_vars

----------------------------------------------------------------------------
(* What the claims speak of *)

\* digits[.digits]: one or more digits, then optionally a point and one or
\* more digits, and nothing else.
IsDecimalText(s) ==
    /\ s # <<>>
    /\ \A i \in 1..Len(s) : s[i] \in Digits \cup {"."}
    /\ s[1] \in Digits
    /\ s[Len(s)] \in Digits
    /\ Cardinality({i \in 1..Len(s) : s[i] = "."}) <= 1

\* The operation o has read a JSON response with a status in [200, 400).
Answered(o) ==
    /\ pc = "done"
    /\ op = o
    /\ wire # None
    /\ wire.status_code \in 200..399
    /\ "json" \in DOMAIN wire.text

NonceOf(d) == IF "nonce" \in DOMAIN d THEN d.nonce.str ELSE <<>>

\* The text signed for the JSON object d: its signed fields' strings in the
\* documented order.
StartText(d) ==
    PyStr(d.url_pay) \o PyStr(d.btc_address) \o PyStr(d.url_qrcode) \o PyStr(d.url_status)
StatusText(d) ==
    PyStr(d.status) \o PyStr(d.amount_btc) \o PyStr(d.amount_received) \o PyStr(d.txid)
SignedText(o, d) == IF o = "start" THEN StartText(d) ELSE StatusText(d)
SignedNames(o) ==
    IF o = "start" THEN {"url_pay", "btc_address", "url_qrcode", "url_status"}
    ELSE {"status", "amount_btc", "amount_received", "txid"}

\* The server signed what it wrote with the client's key: the signed fields
\* in the documented order, then the nonce of the object.
ServedSigned(o) ==
    served.text.json.sign = Hmac(apikey, SignedText(o, served.text.json)
                                            \o NonceOf(served.text.json))

\* The signed fields whose value on arrival is not the value the server wrote.
ChangedFields(o) ==
    {f \in SignedNames(o) : wire.text.json[f] # served.text.json[f]}

\* All else (the nonce, sign, the fields there are) arrived as written.
RestAsServed(o) ==
    /\ DOMAIN wire.text.json = DOMAIN served.text.json
    /\ \A k \in DOMAIN wire.text.json \ SignedNames(o) :
          wire.text.json[k] = served.text.json[k]

Verifying == {"start", "transaction_status"}

----------------------------------------------------------------------------
(* C1 *)

----------------------------------------------------------------------------
(* C2 *)

\* C2: transaction_status verifies with the nonce the caller supplied: it
\* raises InvalidSignature exactly when sign is not the HMAC, under the
\* client's key, of str(status) + str(amount_btc) + str(amount_received) +
\* str(txid) + the caller's nonce ('' when none is supplied).
C2_VerifiesWithCallerNonce ==
    Answered("transaction_status") =>
        LET d == wire.text.json
            n == IF Truthy(args.nonce) THEN args.nonce.str ELSE <<>>
            expected == Hmac(apikey, StatusText(d) \o n)
        IN (outcome.kind = "InvalidSignature") <=> (d.sign # expected)

----------------------------------------------------------------------------
(* C3 *)

\* C3, as claimed: a response signed over its fields with the client's key
\* passes _verify_signature, and once the value of exactly one signed field
\* is changed to a different value, sign left as it was, InvalidSignature
\* is raised with the received sign.
C3_AnyChangeOfOneFieldRejected ==
    \A o \in Verifying :
        (Answered(o) /\ ServedSigned(o)) =>
            /\ wire = served => outcome.kind # "InvalidSignature"
            /\ (Cardinality(ChangedFields(o)) = 1 /\ RestAsServed(o))
                  => outcome = [kind |-> "InvalidSignature", sign |-> wire.text.json.sign]

\* C3, amended: the same, for a change of one signed field to a value whose
\* str() is another text; a change that keeps the field's str() (the
\* string '1' for the number 1) passes.
C3_ChangeOfOneFieldsTextRejected ==
    \A o \in Verifying :
        (Answered(o) /\ ServedSigned(o)) =>
            /\ wire = served => outcome.kind # "InvalidSignature"
            /\ (Cardinality(ChangedFields(o)) = 1 /\ RestAsServed(o)) =>
                  LET f == CHOOSE g \in ChangedFields(o) : TRUE IN
                  IF PyStr(wire.text.json[f]) # PyStr(served.text.json[f])
                  THEN outcome = [kind |-> "InvalidSignature", sign |-> wire.text.json.sign]
                  ELSE outcome.kind # "InvalidSignature"

\* A signed start response whose btc_address alone was rewritten to another
\* text is rejected.
C3_Witness ==
    /\ Answered("start")
    /\ ServedSigned("start")
    /\ ChangedFields("start") = {"btc_address"}
    /\ RestAsServed("start")
    /\ PyStr(wire.text.json.btc_address) # PyStr(served.text.json.btc_address)
    /\ outcome.kind = "InvalidSignature"

----------------------------------------------------------------------------
(* C4 *)

\* C4: once a response is there, a status below 200 or of 400 and more makes
\* the operation raise ServerError with that status, the reason and the raw
\* body, whatever the body is (it is neither decoded nor verified); with a
\* status in [200, 400) no ServerError is raised.
C4_ServerErrorFirst ==
    /\ (pc = "done" /\ wire # None) =>
          IF wire.status_code < 200 \/ wire.status_code >= 400
          THEN outcome = [kind |-> "ServerError", code |-> wire.status_code,
                          message |-> wire.reason, body |-> wire.text]
          ELSE outcome.kind # "ServerError"
    /\ (pc = "done" /\ wire = None) => outcome.kind # "ServerError"

\* transaction_status read a 400 whose JSON body no longer matches its sign.
C4_Witness ==
    /\ pc = "done"
    /\ op = "transaction_status"
    /\ wire # None
    /\ wire.status_code = 400
    /\ "json" \in DOMAIN wire.text
    /\ ~ _verify_signature(apikey, wire.text.json, status_verify_fields)
    /\ outcome.kind = "ServerError"
    /\ outcome.code = 400

----------------------------------------------------------------------------
(* C5 *)

\* C5: a start or price_btc whose amount is not digits[.digits], or a
\* price_btc with negative decimals, raises ValueError with no request
\* issued; every other call issues exactly one request, whatever its
\* outcome, and never a second.
C5_RequestsPerCall ==
    /\ pc # "idle" =>
          IF outcome.kind = "ValueError" /\ outcome.why \in {"amount", "decimals"}
          THEN nrequests = 0
          ELSE nrequests = 1
    /\ (pc = "sent" /\ op \in {"start", "price_btc"}) =>
          IsDecimalText(PyStr(args.amount_eur))
    /\ (pc = "sent" /\ op = "price_btc") => args.decimals.int >= 0

----------------------------------------------------------------------------
(* C6 *)

\* C6: _normalize_amount accepts exactly the texts digits[.digits]: it
\* returns such a text unchanged, and raises ValueError, naming the input,
\* for every other text.
C6_AcceptsExactlyDecimals ==
    /\ (pc = "sent" /\ op \in {"start", "price_btc"}) =>
          /\ IsDecimalText(PyStr(args.amount_eur))
          /\ request.params.amount_eur = Str(PyStr(args.amount_eur))
    /\ (pc = "done" /\ outcome.kind = "ValueError" /\ outcome.why = "amount") =>
          ~ IsDecimalText(outcome.amount)

----------------------------------------------------------------------------
(* C7 *)

\* C7: the sign start sends is the HMAC, under the client's key, of
\* str(amount_eur) + str(description) + str(url_success) + str(merchant_id)
\* + nonce, '' for a nonce that is absent or falsy; no other argument enters
\* it.  The requests of price_btc and transaction_status carry no sign.
C7_RequestSign ==
    pc = "sent" =>
        IF op = "start"
        THEN request.params.sign =
                Hmac(apikey, PyStr(args.amount_eur) \o PyStr(args.description)
                               \o PyStr(args.url_success) \o PyStr(args.merchant_id)
                               \o (IF args.nonce \in {None, Str(<<>>)} THEN <<>>
                                   ELSE args.nonce.str))
        ELSE "sign" \notin DOMAIN request.params

\* start sent a request signed with a nonce, for an integer amount and
\* merchant, with every optional argument given.
C7_Witness ==
    /\ pc = "sent"
    /\ op = "start"
    /\ args.nonce = Str(<<"n">>)
    /\ args.amount_eur = Num(10)
    /\ args.merchant_id = Num(1)
    /\ args.order_id # None
    /\ args.url_failure # None
    /\ args.callback_failure # None
    /\ request.params.sign.msg = <<"1", "0", "T", "h", "o", "k", "1", "n">>

----------------------------------------------------------------------------
(* C8 *)

StartArguments ==
    {"amount_eur", "description", "url_success", "merchant_id", "callback_success",
     "order_id", "url_failure", "callback_failure"}

\* C8, as claimed: the request of start carries sign and every argument,
\* nonce included: a nonce the caller supplies is among the parameters.
C8_RequestCarriesAllAndNonce ==
    (pc = "sent" /\ op = "start") =>
        /\ DOMAIN request.params = StartArguments \cup {"nonce", "sign"}
        /\ \A k \in StartArguments \ {"amount_eur"} : request.params[k] = args[k]
        /\ request.params.amount_eur = Str(PyStr(args.amount_eur))
        /\ Truthy(args.nonce) => request.params.nonce = args.nonce

\* C8, amended: the request of start carries sign and every argument but
\* nonce; nonce enters sign and is never among the parameters.
C8_RequestCarriesAllButNonce ==
    (pc = "sent" /\ op = "start") =>
        /\ DOMAIN request.params = StartArguments \cup {"sign"}
        /\ \A k \in StartArguments \ {"amount_eur"} : request.params[k] = args[k]
        /\ request.params.amount_eur = Str(PyStr(args.amount_eur))
        /\ "nonce" \notin DOMAIN request.params

\* start sent a request for a call that supplied a nonce.
C8_Witness ==
    /\ pc = "sent"
    /\ op = "start"
    /\ args.nonce = Str(<<"n">>)
    /\ request.params.sign.msg[Len(request.params.sign.msg)] = "n"
    /\ request.params.order_id = None

----------------------------------------------------------------------------
(* C9 *)

StatusKeys == {"status", "amount_btc", "amount_received", "txid", "sign"}

----------------------------------------------------------------------------
(* C10 *)

\* The signed fields of d one by one, each as its text, then its nonce.
SignedTuple(o, d) ==
    IF o = "start"
    THEN <<PyStr(d.url_pay), PyStr(d.btc_address), PyStr(d.url_qrcode), PyStr(d.url_status),
           NonceOf(d)>>
    ELSE <<PyStr(d.status), PyStr(d.amount_btc), PyStr(d.amount_received), PyStr(d.txid),
           NonceOf(d)>>

\* C10, as claimed: under one key one sign is accepted for one tuple (signed
\* field values, nonce) only: when the response the server signed and the
\* response that arrived with the same sign both pass, each signed field
\* and the nonce read the same in both.
C10_SignBindsFieldValues ==
    \A o \in Verifying :
        ( /\ Answered(o)
          /\ ServedSigned(o)
          /\ wire.text.json.sign = served.text.json.sign
          /\ outcome.kind # "InvalidSignature" )
        => SignedTuple(o, wire.text.json) = SignedTuple(o, served.text.json)

\* C10, amended: one sign is accepted for one signed text only, the
\* concatenation of the fields' str() and the nonce: two responses that pass
\* with the same sign have the same concatenation, and may split it into
\* fields differently.
C10_SignBindsConcatenation ==
    \A o \in Verifying :
        ( /\ Answered(o)
          /\ ServedSigned(o)
          /\ wire.text.json.sign = served.text.json.sign
          /\ outcome.kind # "InvalidSignature" )
        => SignedText(o, wire.text.json) \o NonceOf(wire.text.json)
             = SignedText(o, served.text.json) \o NonceOf(served.text.json)

\* A character moved from the end of url_pay to the start of btc_address:
\* start returns the rewritten response under the server's sign.
C10_Witness ==
    /\ Answered("start")
    /\ ServedSigned("start")
    /\ served.text.json.url_pay = Str(<<"u", "1">>)
    /\ served.text.json.btc_address = Str(<<"1">>)
    /\ wire.text.json.url_pay = Str(<<"u">>)
    /\ wire.text.json.btc_address = Str(<<"1", "1">>)
    /\ outcome.kind = "return"

====
